---- MODULE Spec2Model ----
(***************************************************************************)
(* Notes backend: the in-memory NotesRepository (repositories/notes_repo.py)*)
(* the Note models (models.py) and the FastAPI route handlers               *)
(* (routes/notes.py).                                                       *)
(*                                                                          *)
(* A request is served by a worker thread: FastAPI resolves the dependency  *)
(* get_repository, validates the body against the pydantic model, and then  *)
(* runs the handler, which calls one repository method.  Each thread step   *)
(* below is one stretch of that code between two points where the           *)
(* interpreter may switch threads.  Spec runs a single thread (requests are *)
(* served one after the other); SpecConc runs all threads.                  *)
(***************************************************************************)
EXTENDS Naturals, Sequences, FiniteSets, TLC

VARIABLES
    repos,    \* heap of NotesRepository objects: repos[i] is object i's _store
    G,        \* module global _GLOBAL_NOTES_REPOSITORY: 0 = name unbound, else an object
    clock,    \* the wall clock datetime.utcnow() reads
    issued,   \* the UUIDs uuid4() has returned so far
    pc,       \* per thread: where it is in serving its request
    req,      \* per thread: the request being served
    loc,      \* per thread: local variables (repo, note, updated)
    res,      \* per thread: the response of its last finished request
    nreq,     \* number of requests begun
    base,     \* history: the global store when the current round of requests began
    round,    \* history: per thread, requests begun in the current round (capped at 2)
    live,     \* history: ids whose create returned and whose delete has not
    deleted   \* history: ids whose delete returned success

vars == <<repos, G, clock, issued, pc, req, loc, res, nreq, base, round, live, deleted>>

----------------------------------------------------------------------------
(* Bounds of the model *)

MaxClock == 2
MaxRequests == 3

Threads == {"t1", "t2"}
MainThread == "t1"
Ids == {"u1", "u2"}

----------------------------------------------------------------------------
(* Values *)

MaxTitleLen == 200
MinLen == 1

S10 == "xxxxxxxxxx"
S100 == S10 \o S10 \o S10 \o S10 \o S10 \o S10 \o S10 \o S10 \o S10 \o S10
LongTitle == S100 \o S100 \o "x"

\* Optional[str]: None or a string.
None == [some |-> FALSE, v |-> ""]
Some(s) == [some |-> TRUE, v |-> s]

NoId == "-"
NoNote == [id |-> NoId, title |-> "", content |-> "", created_at |-> 0, updated_at |-> 0]

\* The Note model.
Note(id, title, content, created_at, updated_at) ==
    [id |-> id, title |-> title, content |-> content,
     created_at |-> created_at, updated_at |-> updated_at]

----------------------------------------------------------------------------
(* Python dict with insertion order: a sequence of <<key, value>> entries *)

DictKeys(d) == {d[i].key : i \in 1..Len(d)}

DictHas(d, k) == k \in DictKeys(d)

DictIndex(d, k) == CHOOSE i \in 1..Len(d) : d[i].key = k

DictGet(d, k) == d[DictIndex(d, k)].val

\* d[k] = v: an existing key keeps its place, a new key goes last.
DictSet(d, k, v) ==
    IF DictHas(d, k)
    THEN [d EXCEPT ![DictIndex(d, k)] = [key |-> k, val |-> v]]
    ELSE Append(d, [key |-> k, val |-> v])

\* del d[k], for a key that is present.
DictDel(d, k) ==
    LET i == DictIndex(d, k)
    IN SubSeq(d, 1, i - 1) \o SubSeq(d, i + 1, Len(d))

DictValues(d) == [i \in 1..Len(d) |-> d[i].val]

----------------------------------------------------------------------------
(* models.py *)

\* Field(..., min_length=1, max_length=200) on a required str.
ValidTitle(o) == o.some /\ Len(o.v) >= MinLen /\ Len(o.v) <= MaxTitleLen

\* Field(..., min_length=1) on a required str.
ValidContent(o) == o.some /\ Len(o.v) >= MinLen

\* NoteCreate(NoteBase): both fields required.
ValidNoteCreate(r) == ValidTitle(r.title) /\ ValidContent(r.content)

\* Mutant of ValidNoteUpdate: the Optional fields carry no length constraint.
ValidNoteUpdate_unconstrained(r) == TRUE

\* NoteUpdate: both fields Optional; the length checks apply to a given value.
ValidNoteUpdate(r) ==
    /\ (r.title.some => ValidTitle(r.title))
    /\ (r.content.some => ValidContent(r.content))

\* Mutant of new_from_create: title and content passed in each other's place.
new_from_create_swapped(data, now, uid) ==
    Note(uid, data.content.v, data.title.v, now, now)

\* Mutant of new_from_create: every note is given the same id.
new_from_create_same_id(data, now, uid) ==
    Note("u1", data.title.v, data.content.v, now, now)

\* Note.new_from_create, with the values utcnow() and uuid4() returned.
new_from_create(data, now, uid) ==
    Note(uid, data.title.v, data.content.v, now, now)

----------------------------------------------------------------------------
(* notes_repo.py: the repository methods as functions of the _store *)

\* sorted(values, key=created_at): a stable insertion sort.
RECURSIVE InsertByCreated(_, _)
InsertByCreated(s, n) ==
    IF s = <<>> THEN <<n>>
    ELSE IF s[Len(s)].created_at <= n.created_at THEN Append(s, n)
    ELSE Append(InsertByCreated(SubSeq(s, 1, Len(s) - 1), n), s[Len(s)])

RECURSIVE SortedByCreated(_)
SortedByCreated(s) ==
    IF s = <<>> THEN <<>>
    ELSE InsertByCreated(SortedByCreated(SubSeq(s, 1, Len(s) - 1)), s[Len(s)])

\* Mutant of list_notes: sorted with reverse=True.
list_notes_descending(store) ==
    LET s == SortedByCreated(DictValues(store))
    IN [i \in 1..Len(s) |-> s[Len(s) + 1 - i]]

list_notes(store) == SortedByCreated(DictValues(store))

\* get_note: the note, or NotFoundError.
get_note(store, id) ==
    IF DictHas(store, id)
    THEN [out |-> "ok", note |-> DictGet(store, id)]
    ELSE [out |-> "NotFound", note |-> NoNote]

\* create_note's store assignment.
create_store(store, note) == DictSet(store, note.id, note)

\* Mutant of EmptyUpdate: the at-least-one-field check left out.
EmptyUpdate_unchecked(r) == FALSE

\* update_note's check that the payload names a field.
EmptyUpdate(r) == ~r.title.some /\ ~r.content.some

\* Mutant of update_check: the at-least-one-field check comes first.
update_check_fields_first(store, r) ==
    IF EmptyUpdate(r) THEN "ValidationFailed"
    ELSE IF get_note(store, r.id).out # "ok" THEN "NotFound"
    ELSE "ok"

\* update_note's checks, in the order of the code: self.get_note(note_id)
\* raises NotFoundError, then the payload with no field raises ValidationError.
update_check(store, r) ==
    IF get_note(store, r.id).out # "ok" THEN "NotFound"
    ELSE IF EmptyUpdate(r) THEN "ValidationFailed"
    ELSE "ok"

\* Mutant of update_copy: the payload's fields are copied even when None.
update_copy_overwrite(note, r, now) ==
    [note EXCEPT !.title = r.title.v, !.content = r.content.v, !.updated_at = now]

\* Mutant of update_copy: the fresh timestamp is written to created_at.
update_copy_wrong_stamp(note, r, now) ==
    [note EXCEPT !.title = IF r.title.some THEN r.title.v ELSE note.title,
                 !.content = IF r.content.some THEN r.content.v ELSE note.content,
                 !.created_at = now]

\* Mutant of update_copy: both timestamps are set to the time of the update.
update_copy_recreated(note, r, now) ==
    [note EXCEPT !.title = IF r.title.some THEN r.title.v ELSE note.title,
                 !.content = IF r.content.some THEN r.content.v ELSE note.content,
                 !.created_at = now,
                 !.updated_at = now]

\* update_note's note.model_copy(update={...}).
update_copy(note, r, now) ==
    [note EXCEPT !.title = IF r.title.some THEN r.title.v ELSE note.title,
                 !.content = IF r.content.some THEN r.content.v ELSE note.content,
                 !.updated_at = now]

\* Mutant of update_store: the entry is removed and inserted again, which
\* moves it to the end of the dict.
update_store_reinserted(store, id, updated) ==
    IF DictHas(store, id)
    THEN Append(DictDel(store, id), [key |-> id, val |-> updated])
    ELSE Append(store, [key |-> id, val |-> updated])

\* Mutant of update_store: the fields are written in place, the timestamp last;
\* the store holds the note with its new fields and its old updated_at.
update_store_partial(store, id, updated) ==
    DictSet(store, id,
            IF DictHas(store, id)
            THEN [updated EXCEPT !.updated_at = DictGet(store, id).updated_at]
            ELSE updated)

\* update_note's store assignment.
update_store(store, id, updated) == DictSet(store, id, updated)

\* Mutant of delete_del: the oldest entry is removed, whatever its key.
delete_del_oldest(store, id) == Tail(store)

\* Mutant of delete_del: the entry is not removed.
delete_del_kept(store, id) == store

\* delete_note's del.
delete_del(store, id) == DictDel(store, id)

----------------------------------------------------------------------------
(* routes/notes.py: the status a handler answers for a repository outcome.  *)
(* An exception no except clause names leaves the handler and is answered   *)
(* with 500.                                                                *)

\* Mutant of HandlerStatus: update_note without its except ValidationError clause.
HandlerStatus_uncaught(op, out) ==
    CASE op = "list" /\ out = "ok" -> 200
      [] op = "create" /\ out = "ok" -> 201
      [] op = "get" /\ out = "ok" -> 200
      [] op = "get" /\ out = "NotFound" -> 404
      [] op = "update" /\ out = "ok" -> 200
      [] op = "update" /\ out = "NotFound" -> 404
      [] op = "delete" /\ out = "ok" -> 204
      [] op = "delete" /\ out = "NotFound" -> 404
      [] OTHER -> 500

HandlerStatus(op, out) ==
    CASE op = "list" /\ out = "ok" -> 200
      [] op = "create" /\ out = "ok" -> 201
      [] op = "create" /\ out = "ValidationFailed" -> 400
      [] op = "get" /\ out = "ok" -> 200
      [] op = "get" /\ out = "NotFound" -> 404
      [] op = "update" /\ out = "ok" -> 200
      [] op = "update" /\ out = "NotFound" -> 404
      [] op = "update" /\ out = "ValidationFailed" -> 400
      [] op = "delete" /\ out = "ok" -> 204
      [] op = "delete" /\ out = "NotFound" -> 404
      [] OTHER -> 500

\* The body fails the pydantic model: the handler is not called.
RequestValidationStatus == 422

----------------------------------------------------------------------------
(* Requests *)

Request(op, id, title, content) ==
    [op |-> op, id |-> id, title |-> title, content |-> content]

NoRequest == Request("none", NoId, None, None)

CreateBodies ==
    {<<Some("A"), Some("B")>>, <<Some("A2"), Some("B")>>,
     <<Some(""), Some("B")>>, <<Some("A"), Some("")>>, <<Some(LongTitle), Some("B")>>}

UpdateBodies ==
    {<<None, None>>, <<Some("A2"), None>>, <<None, Some("B2")>>,
     <<Some("A2"), Some("B2")>>, <<Some(""), None>>}

Requests ==
    {Request("list", NoId, None, None)}
    \cup {Request("create", NoId, b[1], b[2]) : b \in CreateBodies}
    \cup {Request("get", i, None, None) : i \in Ids}
    \cup {Request("update", i, b[1], b[2]) : i \in Ids, b \in UpdateBodies}
    \cup {Request("delete", i, None, None) : i \in Ids}

NoLocals == [repo |-> 0, note |-> NoNote]
NoResponse == [status |-> 0, out |-> "none", body |-> <<>>]
Response(op, out, body) == [status |-> HandlerStatus(op, out), out |-> out, body |-> body]

InFlight(t) == pc[t] \notin {"idle", "done"}

\* The store of the repository the global names (empty while it names none).
GlobalStore == IF G = 0 THEN <<>> ELSE repos[G]

\* Creates that have begun and not yet drawn their id.
PendingCreates ==
    {t \in Threads : req[t].op = "create"
                     /\ pc[t] \in {"repo_try", "repo_new", "repo_read", "validate", "create_new"}}

----------------------------------------------------------------------------
(* State machine *)

Init ==
    /\ repos = <<>>
    /\ G = 0
    /\ clock = 0
    /\ issued = {}
    /\ pc = [t \in Threads |-> "idle"]
    /\ req = [t \in Threads |-> NoRequest]
    /\ loc = [t \in Threads |-> NoLocals]
    /\ res = [t \in Threads |-> NoResponse]
    /\ nreq = 0
    /\ base = <<>>
    /\ round = [t \in Threads |-> 0]
    /\ live = {}
    /\ deleted = {}

\* Time passes.
Tick ==
    /\ clock < MaxClock
    /\ clock' = clock + 1
    /\ UNCHANGED <<repos, G, issued, pc, req, loc, res, nreq, base, round, live, deleted>>

\* A request arrives and is given to thread t.
Begin(t, r) ==
    /\ ~InFlight(t)
    /\ nreq < MaxRequests
    /\ r.op = "create" => Cardinality(PendingCreates) < Cardinality(Ids \ issued)
    /\ pc' = [pc EXCEPT ![t] = "repo_try"]
    /\ req' = [req EXCEPT ![t] = r]
    /\ loc' = [loc EXCEPT ![t] = NoLocals]
    /\ res' = [res EXCEPT ![t] = NoResponse]
    /\ nreq' = nreq + 1
    /\ IF \A u \in Threads : ~InFlight(u)
       THEN /\ base' = GlobalStore
            /\ round' = [u \in Threads |-> IF u = t THEN 1 ELSE 0]
       ELSE /\ base' = base
            /\ round' = [round EXCEPT ![t] = IF round[t] >= 1 THEN 2 ELSE 1]
    /\ UNCHANGED <<repos, G, clock, issued, live, deleted>>

\* get_repository: try: repo = _GLOBAL_NOTES_REPOSITORY
RepoTry(t) ==
    /\ pc[t] = "repo_try"
    /\ IF G # 0
       THEN /\ loc' = [loc EXCEPT ![t].repo = G]
            /\ pc' = [pc EXCEPT ![t] = "validate"]
       ELSE /\ loc' = loc
            /\ pc' = [pc EXCEPT ![t] = "repo_new"]
    /\ UNCHANGED <<repos, G, clock, issued, req, res, nreq, base, round, live, deleted>>

\* get_repository: except NameError: _GLOBAL_NOTES_REPOSITORY = NotesRepository()
RepoNew(t) ==
    /\ pc[t] = "repo_new"
    /\ repos' = Append(repos, <<>>)
    /\ G' = Len(repos) + 1
    /\ pc' = [pc EXCEPT ![t] = "repo_read"]
    /\ UNCHANGED <<clock, issued, req, loc, res, nreq, base, round, live, deleted>>

\* get_repository: repo = _GLOBAL_NOTES_REPOSITORY; return repo
RepoRead(t) ==
    /\ pc[t] = "repo_read"
    /\ loc' = [loc EXCEPT ![t].repo = G]
    /\ pc' = [pc EXCEPT ![t] = "validate"]
    /\ UNCHANGED <<repos, G, clock, issued, req, res, nreq, base, round, live, deleted>>

\* The body is validated against NoteCreate / NoteUpdate before the handler runs.
Validate(t) ==
    /\ pc[t] = "validate"
    /\ LET r == req[t]
           ok == CASE r.op = "create" -> ValidNoteCreate(r)
                   [] r.op = "update" -> ValidNoteUpdate(r)
                   [] OTHER -> TRUE
       IN IF ok
          THEN /\ pc' = [pc EXCEPT ![t] =
                            CASE r.op = "list" -> "list"
                              [] r.op = "create" -> "create_new"
                              [] r.op = "get" -> "get"
                              [] r.op = "update" -> "upd_get"
                              [] r.op = "delete" -> "del_check"]
               /\ res' = res
          ELSE /\ pc' = [pc EXCEPT ![t] = "done"]
               /\ res' = [res EXCEPT ![t] =
                            [status |-> RequestValidationStatus,
                             out |-> "RequestValidation", body |-> <<>>]]
    /\ UNCHANGED <<repos, G, clock, issued, req, loc, nreq, base, round, live, deleted>>

\* GET /notes: repo.list_notes()
ListNotes(t) ==
    /\ pc[t] = "list"
    /\ res' = [res EXCEPT ![t] = Response("list", "ok", list_notes(repos[loc[t].repo]))]
    /\ pc' = [pc EXCEPT ![t] = "done"]
    /\ UNCHANGED <<repos, G, clock, issued, req, loc, nreq, base, round, live, deleted>>

\* POST /notes: note = Note.new_from_create(payload)
CreateNew(t) ==
    /\ pc[t] = "create_new"
    /\ \E uid \in Ids \ issued :
         /\ issued' = issued \cup {uid}
         /\ loc' = [loc EXCEPT ![t].note = new_from_create(req[t], clock, uid)]
    /\ pc' = [pc EXCEPT ![t] = "create_store"]
    /\ UNCHANGED <<repos, G, clock, req, res, nreq, base, round, live, deleted>>

\* POST /notes: self._store[note.id] = note; return note
CreateStore(t) ==
    /\ pc[t] = "create_store"
    /\ repos' = [repos EXCEPT ![loc[t].repo] = create_store(@, loc[t].note)]
    /\ res' = [res EXCEPT ![t] = Response("create", "ok", <<loc[t].note>>)]
    /\ pc' = [pc EXCEPT ![t] = "done"]
    /\ live' = live \cup {loc[t].note.id}
    /\ UNCHANGED <<G, clock, issued, req, loc, nreq, base, round, deleted>>

\* GET /notes/{id}: repo.get_note(note_id)
GetNote(t) ==
    /\ pc[t] = "get"
    /\ LET g == get_note(repos[loc[t].repo], req[t].id)
       IN res' = [res EXCEPT ![t] =
                    Response("get", g.out, IF g.out = "ok" THEN <<g.note>> ELSE <<>>)]
    /\ pc' = [pc EXCEPT ![t] = "done"]
    /\ UNCHANGED <<repos, G, clock, issued, req, loc, nreq, base, round, live, deleted>>

\* PUT /notes/{id}: note = self.get_note(note_id), then the at-least-one-field check
UpdGet(t) ==
    /\ pc[t] = "upd_get"
    /\ LET c == update_check(repos[loc[t].repo], req[t])
       IN IF c # "ok"
          THEN /\ res' = [res EXCEPT ![t] = Response("update", c, <<>>)]
               /\ pc' = [pc EXCEPT ![t] = "done"]
               /\ loc' = loc
          ELSE /\ res' = res
               /\ pc' = [pc EXCEPT ![t] = "upd_copy"]
               /\ loc' = [loc EXCEPT ![t].note = get_note(repos[loc[t].repo], req[t].id).note]
    /\ UNCHANGED <<repos, G, clock, issued, req, nreq, base, round, live, deleted>>

\* PUT /notes/{id}: updated = note.model_copy(update={..., "updated_at": utcnow()})
UpdCopy(t) ==
    /\ pc[t] = "upd_copy"
    /\ loc' = [loc EXCEPT ![t].note = update_copy(@, req[t], clock)]
    /\ pc' = [pc EXCEPT ![t] = "upd_store"]
    /\ UNCHANGED <<repos, G, clock, issued, req, res, nreq, base, round, live, deleted>>

\* PUT /notes/{id}: self._store[note_id] = updated; return updated
UpdStore(t) ==
    /\ pc[t] = "upd_store"
    /\ repos' = [repos EXCEPT ![loc[t].repo] = update_store(@, req[t].id, loc[t].note)]
    /\ res' = [res EXCEPT ![t] = Response("update", "ok", <<loc[t].note>>)]
    /\ pc' = [pc EXCEPT ![t] = "done"]
    /\ UNCHANGED <<G, clock, issued, req, loc, nreq, base, round, live, deleted>>

\* DELETE /notes/{id}: if note_id not in self._store: raise NotFoundError
DelCheck(t) ==
    /\ pc[t] = "del_check"
    /\ IF DictHas(repos[loc[t].repo], req[t].id)
       THEN /\ pc' = [pc EXCEPT ![t] = "del_del"]
            /\ res' = res
       ELSE /\ pc' = [pc EXCEPT ![t] = "done"]
            /\ res' = [res EXCEPT ![t] = Response("delete", "NotFound", <<>>)]
    /\ UNCHANGED <<repos, G, clock, issued, req, loc, nreq, base, round, live, deleted>>

\* DELETE /notes/{id}: del self._store[note_id] (KeyError when the key has gone)
DelDel(t) ==
    /\ pc[t] = "del_del"
    /\ IF DictHas(repos[loc[t].repo], req[t].id)
       THEN /\ repos' = [repos EXCEPT ![loc[t].repo] = delete_del(@, req[t].id)]
            /\ res' = [res EXCEPT ![t] = Response("delete", "ok", <<>>)]
            /\ live' = live \ {req[t].id}
            /\ deleted' = deleted \cup {req[t].id}
       ELSE /\ repos' = repos
            /\ res' = [res EXCEPT ![t] = Response("delete", "KeyError", <<>>)]
            /\ live' = live
            /\ deleted' = deleted
    /\ pc' = [pc EXCEPT ![t] = "done"]
    /\ UNCHANGED <<G, clock, issued, req, loc, nreq, base, round>>

Step(t) ==
    \/ \E r \in Requests : Begin(t, r)
    \/ RepoTry(t)
    \/ RepoNew(t)
    \/ RepoRead(t)
    \/ Validate(t)
    \/ ListNotes(t)
    \/ CreateNew(t)
    \/ CreateStore(t)
    \/ GetNote(t)
    \/ UpdGet(t)
    \/ UpdCopy(t)
    \/ UpdStore(t)
    \/ DelCheck(t)
    \/ DelDel(t)

\* Requests served one after the other.
Next == Tick \/ Step(MainThread)

\* Requests served by concurrent threads.
NextConc == Tick \/ \E t \in Threads : Step(t)

Spec == Init /\ [][Next]_vars

SpecConc == Init /\ [][NextConc]_vars

----------------------------------------------------------------------------
(* Views used by the properties *)

Done(t) == pc[t] = "done"

\* No request is being served.
Quiescent == \A t \in Threads : ~InFlight(t)

\* The stored notes of the repository the global names.
StoredNotes == {GlobalStore[i].val : i \in 1..Len(GlobalStore)}

\* The request carries neither a title nor a content.
OmitsBoth(r) == r.title = None /\ r.content = None

NonDecreasingCreated(s) ==
    \A i, j \in 1..Len(s) : i < j => s[i].created_at <= s[j].created_at

----------------------------------------------------------------------------
(* Requests served one after the other (Spec) *)

\* C1: for every valid (title, content), in any reachable store state, a create
\* succeeds, and a get of the returned id directly after it succeeds and returns
\* a note with the given title and content and created_at = updated_at.
C1_CreateThenGet ==
    \A t \in Threads :
        (Done(t) /\ req[t].op = "create" /\ ValidNoteCreate(req[t])) =>
            /\ res[t].status = 201
            /\ Len(res[t].body) = 1
            /\ LET g == get_note(GlobalStore, res[t].body[1].id)
               IN /\ g.out = "ok"
                  /\ HandlerStatus("get", g.out) = 200
                  /\ g.note.id = res[t].body[1].id
                  /\ g.note.title = req[t].title.v
                  /\ g.note.content = req[t].content.v
                  /\ g.note.created_at = g.note.updated_at

\* A create has just returned into a store that already held another note.
C1_Witness ==
    /\ Done(MainThread)
    /\ req[MainThread].op = "create"
    /\ res[MainThread].status = 201
    /\ Len(base) = 1
    /\ Len(GlobalStore) = 2

\* C2: once delete(id) has succeeded the id stays absent from the store, and every
\* later get, update and delete of that id that reaches the repository fails with
\* NotFound (404), whatever requests, creates included, were served in between.
C2_DeleteIsPermanent ==
    /\ [](\A id \in deleted : /\ get_note(GlobalStore, id).out = "NotFound"
                             /\ id \notin DictKeys(GlobalStore))
    /\ [][\A t \in Threads :
            (/\ req[t].id \in deleted
             /\ req[t].op \in {"get", "update", "delete"}
             /\ ~Done(t)
             /\ pc'[t] = "done"
             /\ res'[t].out # "RequestValidation")
            => (res'[t].out = "NotFound" /\ res'[t].status = 404)]_vars

\* A second delete of an id has just failed with NotFound.
C2_Witness ==
    /\ Done(MainThread)
    /\ req[MainThread].op = "delete"
    /\ req[MainThread].id \in deleted
    /\ res[MainThread].status = 404

\* C3: after any sequence of creates, updates and deletes, list() returns exactly
\* the live notes, each once and as stored, in non-decreasing created_at order.
C3_ListIsLiveAndSorted ==
    LET L == list_notes(GlobalStore)
    IN /\ {L[i].id : i \in 1..Len(L)} = live
       /\ Len(L) = Cardinality(live)
       /\ \A i \in 1..Len(L) : L[i] \in StoredNotes
       /\ NonDecreasingCreated(L)
       /\ \A t \in Threads :
            (Done(t) /\ req[t].op = "list") => (res[t].status = 200 /\ res[t].body = L)

\* A list has just returned two live notes created at different times.
C3_Witness ==
    /\ Done(MainThread)
    /\ req[MainThread].op = "list"
    /\ Len(res[MainThread].body) = 2
    /\ res[MainThread].body[1].created_at < res[MainThread].body[2].created_at

\* C4: update(id) of an existing id with title and content both omitted fails with
\* ValidationFailed (400) and leaves the whole store as it was.
C4_EmptyUpdateRejected ==
    \A t \in Threads :
        (Done(t) /\ req[t].op = "update" /\ OmitsBoth(req[t]) /\ DictHas(base, req[t].id)) =>
            /\ res[t].out = "ValidationFailed"
            /\ res[t].status = 400
            /\ GlobalStore = base

\* An empty update of a stored note has just been answered, while the clock has
\* moved on since the note was written.
C4_Witness ==
    /\ Done(MainThread)
    /\ req[MainThread].op = "update"
    /\ OmitsBoth(req[MainThread])
    /\ DictHas(base, req[MainThread].id)
    /\ DictGet(base, req[MainThread].id).updated_at < clock

\* C5: a successful update replaces exactly the fields it supplies (both when both
\* are supplied), keeps the other field, and leaves updated_at not less than
\* before; it returns the stored note.
C5_UpdateReplacesSupplied ==
    \A t \in Threads :
        (Done(t) /\ req[t].op = "update" /\ res[t].status = 200) =>
            /\ DictHas(base, req[t].id)
            /\ DictHas(GlobalStore, req[t].id)
            /\ LET old == DictGet(base, req[t].id)
                   new == DictGet(GlobalStore, req[t].id)
               IN /\ new.title = (IF req[t].title.some THEN req[t].title.v ELSE old.title)
                  /\ new.content = (IF req[t].content.some THEN req[t].content.v ELSE old.content)
                  /\ new.updated_at >= old.updated_at
                  /\ res[t].body = <<new>>

\* A title-only update has just changed the title and moved updated_at forward.
C5_Witness ==
    /\ Done(MainThread)
    /\ req[MainThread].op = "update"
    /\ res[MainThread].status = 200
    /\ req[MainThread].title.some
    /\ ~req[MainThread].content.some
    /\ DictGet(base, req[MainThread].id).title # req[MainThread].title.v
    /\ DictGet(GlobalStore, req[MainThread].id).updated_at
         > DictGet(base, req[MainThread].id).updated_at

\* C6: the status of every request that reaches the repository is fixed by the
\* repository's outcome on the store the request found: list 200, create 201,
\* get 200, update 200, delete 204, NotFound 404, ValidationFailed of update 400;
\* and no request is answered with a 5xx status.
C6_StatusTable ==
    \A t \in Threads :
        Done(t) =>
            /\ res[t].status < 500
            /\ res[t].out = "NotFound" => res[t].status = 404
            /\ res[t].out = "ValidationFailed" => res[t].status = 400
            /\ res[t].out # "RequestValidation" =>
                 res[t].status =
                    CASE req[t].op = "list" -> 200
                      [] req[t].op = "create" -> 201
                      [] req[t].op = "get" ->
                            IF DictHas(base, req[t].id) THEN 200 ELSE 404
                      [] req[t].op = "update" ->
                            IF ~DictHas(base, req[t].id) THEN 404
                            ELSE IF OmitsBoth(req[t]) THEN 400 ELSE 200
                      [] req[t].op = "delete" ->
                            IF DictHas(base, req[t].id) THEN 204 ELSE 404

\* An update has just been refused with ValidationFailed.
C6_Witness ==
    /\ Done(MainThread)
    /\ req[MainThread].op = "update"
    /\ res[MainThread].out = "ValidationFailed"
    /\ res[MainThread].status = 400

\* C7: every stored note has updated_at >= created_at.
C7_UpdatedNotBeforeCreated ==
    \A r \in 1..Len(repos) : \A i \in 1..Len(repos[r]) :
        repos[r][i].val.updated_at >= repos[r][i].val.created_at

\* A stored note was updated after the clock moved on from its creation.
C7_Witness ==
    \E n \in StoredNotes : n.updated_at > n.created_at

----------------------------------------------------------------------------
(* Requests served by concurrent threads (SpecConc) *)

\* The threads that served a request in the current round.
RoundThreads == {t \in Threads : round[t] >= 1}

\* The request of thread t as one atomic call on a store; a create stores the
\* note the thread built.
ApplySerial(store, t) ==
    LET r == req[t]
    IN CASE r.op = "create" ->
              IF ValidNoteCreate(r) THEN create_store(store, loc[t].note) ELSE store
         [] r.op = "update" ->
              IF ValidNoteUpdate(r) /\ DictHas(store, r.id) /\ ~EmptyUpdate(r)
              THEN update_store(store, r.id, update_copy(DictGet(store, r.id), r, clock))
              ELSE store
         [] r.op = "delete" ->
              IF DictHas(store, r.id) THEN delete_del(store, r.id) ELSE store
         [] OTHER -> store

\* The stores the requests of the threads S leave when run one after the other,
\* in every order.
RECURSIVE SerialOutcomes(_, _)
SerialOutcomes(S, store) ==
    IF S = {} THEN {store}
    ELSE UNION {SerialOutcomes(S \ {t}, ApplySerial(store, t)) : t \in S}

\* A store without its timestamps and insertion order.
Proj(store) ==
    {[key |-> store[i].key, id |-> store[i].val.id,
      title |-> store[i].val.title, content |-> store[i].val.content] : i \in 1..Len(store)}

\* C8: concurrent create, update and delete calls on the one repository are
\* atomic with respect to each other: when the calls of a round have all
\* returned, the store is what some serial order of them leaves; and two
\* concurrent updates of a note, one of the title only and one of the content
\* only, leave a note carrying both new values.
C8_MutationsSerializable ==
    (/\ Quiescent
     /\ \A t \in Threads : round[t] <= 1
     /\ \A t \in RoundThreads : loc[t].repo = G)
    => /\ Proj(GlobalStore) \in {Proj(s) : s \in SerialOutcomes(RoundThreads, base)}
       /\ \A t, u \in RoundThreads :
            (/\ req[t].op = "update" /\ res[t].status = 200
             /\ req[u].op = "update" /\ res[u].status = 200
             /\ req[t].id = req[u].id
             /\ req[t].title.some /\ ~req[t].content.some
             /\ req[u].content.some /\ ~req[u].title.some
             /\ DictHas(GlobalStore, req[t].id))
            => /\ DictGet(GlobalStore, req[t].id).title = req[t].title.v
               /\ DictGet(GlobalStore, req[t].id).content = req[u].content.v

\* C9: when update(id) and delete(id) have both returned from the same
\* repository and the delete returned success, the id is absent from the store
\* and a get of it fails with NotFound.
C9_DeleteNotUndoneByUpdate ==
    \A t, u \in Threads :
        (/\ t # u
         /\ Done(t) /\ req[t].op = "delete" /\ res[t].status = 204
         /\ Done(u) /\ req[u].op = "update" /\ req[u].id = req[t].id
         /\ loc[u].repo = loc[t].repo)
        => get_note(repos[loc[t].repo], req[t].id).out = "NotFound"

\* C10: every call of get_repository, first calls of overlapping requests
\* included, returns the same NotesRepository, and every note whose create
\* returned, and that was not deleted, is in the store the global names.
C10_OneRepository ==
    /\ \A t, u \in Threads :
         (loc[t].repo # 0 /\ loc[u].repo # 0) => loc[t].repo = loc[u].repo
    /\ \A id \in live : DictHas(GlobalStore, id)

----------------------------------------------------------------------------
(* A caller that writes to a Note the repository returned (SpecCaller).     *)
(* create_note, get_note and update_note return the object the _store       *)
(* holds, and list_notes returns a new list of those same objects, so an    *)
(* assignment to a field of a returned Note writes the stored object.       *)

MutatedTitle == "X"

\* The caller of thread t's finished request assigns title on the i-th Note it
\* was returned, while the _store still holds that object.
MutateReturned(t, i) ==
    /\ pc[t] = "done"
    /\ i \in 1..Len(res[t].body)
    /\ LET n == res[t].body[i]
           m == [n EXCEPT !.title = MutatedTitle]
           store == repos[loc[t].repo]
       IN /\ n.title # MutatedTitle
          /\ DictHas(store, n.id)
          /\ DictGet(store, n.id) = n
          /\ res' = [res EXCEPT ![t].body[i] = m]
          /\ repos' = [repos EXCEPT ![loc[t].repo] = DictSet(store, n.id, m)]
    /\ UNCHANGED <<G, clock, issued, pc, req, loc, nreq, base, round, live, deleted>>

NextCaller == Next \/ \E i \in 1..Cardinality(Ids) : MutateReturned(MainThread, i)

SpecCaller == Init /\ [][NextCaller]_vars

\* C11: callers receive copies: assigning a field of a Note that create, get,
\* update or list returned changes nothing a later get or list of the store
\* returns.
C11_CallersReceiveCopies ==
    [][\A t \in Threads :
         (Done(t) /\ pc'[t] = "done" /\ res'[t].body # res[t].body)
         => /\ list_notes(GlobalStore') = list_notes(GlobalStore)
            /\ \A id \in Ids : get_note(GlobalStore', id) = get_note(GlobalStore, id)]_vars

----------------------------------------------------------------------------
(* Requests served one after the other (Spec), continued *)

\* The create body fails the format validation: empty title, empty content,
\* or a title of more than 200 characters.
FailsFormat(r) ==
    \/ ~r.title.some \/ ~r.content.some
    \/ Len(r.title.v) = 0 \/ Len(r.content.v) = 0 \/ Len(r.title.v) > 200

\* C12: POST /notes with a body whose title or content fails format validation
\* is answered with status 400 and stores no note.
C12_InvalidCreateIs400 ==
    \A t \in Threads :
        (Done(t) /\ req[t].op = "create" /\ FailsFormat(req[t]))
        => (res[t].status = 400 /\ GlobalStore = base)

----------------------------------------------------------------------------
(* A reading thread beside a writing thread (SpecRW): one thread serves the  *)
(* create, update and delete requests while another serves get and list.     *)

Writer == "t1"
Reader == "t2"

ReaderRequests == {r \in Requests : r.op \in {"get", "list"}}
WriterRequests == Requests \ ReaderRequests

\* A step of thread t's request after it has begun.
Work(t) ==
    \/ RepoTry(t)
    \/ RepoNew(t)
    \/ RepoRead(t)
    \/ Validate(t)
    \/ ListNotes(t)
    \/ CreateNew(t)
    \/ CreateStore(t)
    \/ GetNote(t)
    \/ UpdGet(t)
    \/ UpdCopy(t)
    \/ UpdStore(t)
    \/ DelCheck(t)
    \/ DelDel(t)

NextRW ==
    \/ Tick
    \/ \E r \in WriterRequests : Begin(Writer, r)
    \/ \E r \in ReaderRequests : Begin(Reader, r)
    \/ \E t \in {Writer, Reader} : Work(t)

SpecRW == Init /\ [][NextRW]_vars

\* Note n is the whole result of applying update request r to note pre.
WholeUpdateOf(pre, r, n) ==
    /\ n.id = pre.id
    /\ n.created_at = pre.created_at
    /\ n.title = (IF r.title.some THEN r.title.v ELSE pre.title)
    /\ n.content = (IF r.content.some THEN r.content.v ELSE pre.content)
    /\ n.updated_at >= pre.updated_at

\* What a get or list that ran beside update(id) returned for that id is the
\* whole note as it was before the update, or the whole note the update
\* returned.
ReaderSeesWholeNote ==
    \A t, u \in Threads :
        (/\ t # u
         /\ round[t] = 1 /\ round[u] = 1
         /\ Done(t) /\ req[t].op \in {"get", "list"} /\ res[t].status = 200
         /\ req[u].op = "update"
         /\ loc[u].repo = loc[t].repo
         /\ DictHas(base, req[u].id))
        => \A i \in 1..Len(res[t].body) :
             res[t].body[i].id = req[u].id =>
                LET pre == DictGet(base, req[u].id)
                    n == res[t].body[i]
                IN \/ n = pre
                   \/ /\ Done(u) /\ res[u].status = 200
                      /\ res[u].body = <<n>>
                      /\ WholeUpdateOf(pre, req[u], n)

\* C13: a get or list running beside update(id) returns for that id either the
\* whole pre-update note or the whole post-update note, never a mix, and a
\* response obtained earlier is not altered by a later step of any request.
C13_UpdateSeenAtomically ==
    /\ []ReaderSeesWholeNote
    /\ [][\A t \in Threads : (Done(t) /\ pc'[t] = "done") => res'[t] = res[t]]_vars

\* A get has returned the pre-update note while the update of the same id has
\* built its new note and not yet stored it.
C13_Witness ==
    \E t, u \in Threads :
        /\ Done(t) /\ req[t].op = "get" /\ res[t].status = 200
        /\ round[t] = 1 /\ round[u] = 1
        /\ pc[u] = "upd_store" /\ req[u].id = req[t].id
        /\ res[t].body[1].title # loc[u].note.title
        /\ res[t].body[1].updated_at < loc[u].note.updated_at

----------------------------------------------------------------------------
(* Requests served by concurrent threads (SpecConc), continued *)

\* C14: for a given id the stored updated_at never decreases while the note
\* lives, under every interleaving of concurrent updates of that id (the clock
\* itself never goes backwards).
C14_UpdatedAtMonotone ==
    [][\A r \in 1..Len(repos) : \A id \in Ids :
         (DictHas(repos[r], id) /\ DictHas(repos'[r], id))
         => DictGet(repos'[r], id).updated_at >= DictGet(repos[r], id).updated_at]_vars

----------------------------------------------------------------------------
(* Requests served one after the other (Spec), continued *)

\* The ids of a list of notes, in its order.
IdsOf(L) == [i \in 1..Len(L) |-> L[i].id]

\* Note a comes before note b in list L.
Before(L, a, b) ==
    \E i, j \in 1..Len(L) : i < j /\ L[i].id = a /\ L[j].id = b

CreatedAt(L, a) == (CHOOSE n \in {L[i] : i \in 1..Len(L)} : n.id = a).created_at

\* C15: in list(), notes with equal created_at appear in the order in which
\* they were created: a new note is listed after the notes of equal created_at
\* already there, and no update or delete changes the order of two such notes.
C15_TiesInCreationOrder ==
    [][LET L == list_notes(GlobalStore)
           M == list_notes(GlobalStore')
           old == {L[i].id : i \in 1..Len(L)}
           new == {M[i].id : i \in 1..Len(M)}
       IN /\ \A a, b \in old \cap new :
               (Before(L, a, b) /\ CreatedAt(L, a) = CreatedAt(L, b)) => Before(M, a, b)
          /\ \A a \in old \cap new : \A b \in new \ old :
               CreatedAt(M, a) = CreatedAt(M, b) => Before(M, a, b)]_vars

\* Two notes created at the same clock value are stored, and the one created
\* first was updated later.
C15_Witness ==
    /\ Len(GlobalStore) = 2
    /\ GlobalStore[1].val.created_at = GlobalStore[2].val.created_at
    /\ GlobalStore[1].val.updated_at > GlobalStore[2].val.updated_at
    /\ IdsOf(list_notes(GlobalStore)) = <<GlobalStore[1].key, GlobalStore[2].key>>

----------------------------------------------------------------------------
(* Requests served one after the other, starting either at process start or  *)
(* in the state the first POST /notes {"title": "A", "content": "B"} leaves   *)
(* (SpecOneNote): the runs of Spec, and runs with one more note in the store. *)

FirstId == "u0"
FirstNote == new_from_create(Request("create", NoId, Some("A"), Some("B")), 0, FirstId)

AfterFirstCreate ==
    /\ repos = <<create_store(<<>>, FirstNote)>>
    /\ G = 1
    /\ clock = 0
    /\ issued = {FirstId}
    /\ pc = [t \in Threads |-> IF t = MainThread THEN "done" ELSE "idle"]
    /\ req = [t \in Threads |->
                IF t = MainThread THEN Request("create", NoId, Some("A"), Some("B"))
                ELSE NoRequest]
    /\ loc = [t \in Threads |->
                IF t = MainThread THEN [repo |-> 1, note |-> FirstNote] ELSE NoLocals]
    /\ res = [t \in Threads |->
                IF t = MainThread THEN Response("create", "ok", <<FirstNote>>)
                ELSE NoResponse]
    /\ nreq = 0
    /\ base = <<>>
    /\ round = [t \in Threads |-> IF t = MainThread THEN 1 ELSE 0]
    /\ live = {FirstId}
    /\ deleted = {}

InitOneNote == Init \/ AfterFirstCreate

SpecOneNote == InitOneNote /\ [][Next]_vars

\* A delete has just removed one of three notes and left two notes of equal
\* created_at.
C15_DeleteCase ==
    /\ Done(MainThread) /\ req[MainThread].op = "delete" /\ res[MainThread].status = 204
    /\ Len(base) = 3 /\ Len(GlobalStore) = 2
    /\ GlobalStore[1].val.created_at = GlobalStore[2].val.created_at

----------------------------------------------------------------------------
(* Unique ids *)

\* C16: the keys of the store are pairwise distinct; a successful create adds
\* exactly one note, under an id that no stored and no previously deleted note
\* has had, and leaves every note that was stored before it in place and
\* unchanged.  (uuid4() is taken never to
\* return the same value twice.)
C16_IdsUniqueNeverReused ==
    /\ Cardinality(DictKeys(GlobalStore)) = Len(GlobalStore)
    /\ \A t \in Threads :
         (Done(t) /\ req[t].op = "create" /\ res[t].status = 201) =>
             /\ res[t].body[1].id \notin DictKeys(base)
             /\ res[t].body[1].id \notin deleted
             /\ Len(GlobalStore) = Len(base) + 1
             /\ DictKeys(GlobalStore) = DictKeys(base) \cup {res[t].body[1].id}
             /\ \A i \in 1..Len(base) : GlobalStore[i] = base[i]

\* A create has succeeded in a store that holds a note, after a note was
\* deleted.
C16_Witness ==
    /\ Done(MainThread) /\ req[MainThread].op = "create" /\ res[MainThread].status = 201
    /\ Len(base) >= 1
    /\ deleted # {}
    /\ Len(GlobalStore) = Len(base) + 1

----------------------------------------------------------------------------
(* Immutable fields *)

\* Every note of a response carries the id and created_at that the note of
\* that id had in the store before the request.
ReportsStoredIdentity(t) ==
    \A i \in 1..Len(res[t].body) :
        /\ DictHas(base, res[t].body[i].id)
        /\ res[t].body[i].created_at = DictGet(base, res[t].body[i].id).created_at

\* C17: the store's key of a note is the note's id; no step changes the id or
\* the created_at of a note that stays in the store; and an answered get,
\* update or list reports, for each note, the id asked for and the created_at
\* the note had before the request.
C17_IdAndCreatedAtFixed ==
    /\ [](/\ \A i \in 1..Len(GlobalStore) : GlobalStore[i].key = GlobalStore[i].val.id
          /\ \A t \in Threads :
               (Done(t) /\ req[t].op \in {"get", "update", "list"} /\ res[t].out = "ok") =>
                   /\ ReportsStoredIdentity(t)
                   /\ req[t].op \in {"get", "update"} => res[t].body[1].id = req[t].id)
    /\ [][\A id \in DictKeys(GlobalStore) \cap DictKeys(GlobalStore') :
             /\ DictGet(GlobalStore', id).id = DictGet(GlobalStore, id).id
             /\ DictGet(GlobalStore', id).created_at = DictGet(GlobalStore, id).created_at]_vars

\* A note has had both fields updated at a time later than its creation, and
\* the list that follows reports it.
C17_Witness ==
    /\ Done(MainThread) /\ req[MainThread].op = "list"
    /\ \E i \in 1..Len(res[MainThread].body) :
         LET n == res[MainThread].body[i]
         IN /\ n.created_at < n.updated_at
            /\ n.title = "A2" /\ n.content = "B2"

----------------------------------------------------------------------------
(* Stored field lengths *)

\* C18: in every reachable state every stored note has a title of 1 to 200
\* characters and a content of at least one character.
C18_StoredFieldsNonEmpty ==
    \A i \in 1..Len(GlobalStore) :
        /\ Len(GlobalStore[i].val.title) >= MinLen
        /\ Len(GlobalStore[i].val.title) <= MaxTitleLen
        /\ Len(GlobalStore[i].val.content) >= MinLen

\* An update that omitted the title has succeeded, and the stored note kept
\* the title it had.
C18_Witness ==
    /\ Done(MainThread) /\ req[MainThread].op = "update" /\ res[MainThread].status = 200
    /\ req[MainThread].title = None /\ req[MainThread].content # None
    /\ DictHas(base, req[MainThread].id)
    /\ DictGet(GlobalStore, req[MainThread].id).title = DictGet(base, req[MainThread].id).title
    /\ DictGet(GlobalStore, req[MainThread].id).content # DictGet(base, req[MainThread].id).content

----------------------------------------------------------------------------
(* Order of update_note's checks *)

\* C19: an update of an id that is not in the store, with a body that passes
\* the request validation, is answered NotFound (404) whether or not a field
\* is supplied, both fields omitted included, and leaves the store as it was.
C19_NotFoundBeforeFieldCheck ==
    \A t \in Threads :
        (/\ Done(t) /\ req[t].op = "update"
         /\ req[t].id \notin DictKeys(base)
         /\ res[t].out # "RequestValidation") =>
            /\ res[t].out = "NotFound"
            /\ res[t].status = 404
            /\ GlobalStore = base

\* An update with both fields omitted has been answered for an id that is not
\* in a store that holds another note.
C19_Witness ==
    /\ Done(MainThread) /\ req[MainThread].op = "update"
    /\ OmitsBoth(req[MainThread])
    /\ req[MainThread].id \notin DictKeys(base)
    /\ Len(base) >= 1
    /\ res[MainThread].status = 404

----------------------------------------------------------------------------
(* Frame of the operations *)

\* The entries of store whose key is not id, in the store's order.
Others(store, id) == SelectSeq(store, LAMBDA e : e.key # id)

\* C20: an answered get or list leaves the store as it was before the request;
\* an answered create, update or delete leaves every note with another id
\* present and unchanged; and a get, update or delete answered NotFound leaves
\* the whole store as it was.
C20_OnlyOwnNoteTouched ==
    \A t \in Threads :
        Done(t) =>
            /\ req[t].op \in {"get", "list"} => GlobalStore = base
            /\ req[t].op = "create" /\ res[t].out = "ok" =>
                   Others(GlobalStore, res[t].body[1].id) = base
            /\ req[t].op \in {"update", "delete"} =>
                   Others(GlobalStore, req[t].id) = Others(base, req[t].id)
            /\ res[t].out \in {"NotFound", "ValidationFailed", "RequestValidation"} =>
                   GlobalStore = base

\* A delete has succeeded and the other note of the store is still there.
C20_Witness ==
    /\ Done(MainThread) /\ req[MainThread].op = "delete" /\ res[MainThread].status = 204
    /\ Len(base) = 2 /\ Len(GlobalStore) = 1
    /\ GlobalStore[1].key # req[MainThread].id
    /\ \E i \in 1..2 : base[i] = GlobalStore[1]

====
